---------------------------- MODULE Spec2Model ----------------------------
(* A model of package csp (src/csp/csp.go): Hoare's COPY, SQUASH,          *)
(* DISASSEMBLE and ASSEMBLE processes and the two pipelines S35_Reformat   *)
(* and S36_ConwayProblem built from them.                                  *)
(*                                                                         *)
(* Every goroutine is a program counter plus its local variables.  The     *)
(* channels are unbuffered: a send and the matching receive are one joint  *)
(* step of the sender and the receiver.  close, and a receiver seeing a    *)
(* closed channel, are steps of one goroutine.  A send on a closed channel *)
(* and a second close are the run-time panics Go raises.                   *)
EXTENDS Integers, Sequences, FiniteSets, TLC

(***************************************************************************)
(* Program constants.                                                      *)
(***************************************************************************)
CardWidth == 80
LineWidth == 125
LastIndex == 124
Space == 32
Star == 42
Arrow == 8593

(***************************************************************************)
(* Bounds of the model.                                                    *)
(***************************************************************************)
\* cards the card source sends before it can only close or stay silent
MaxCards == 2
\* characters the character source sends to COPY or SQUASH run alone
MaxChars == 5
\* characters the character source sends to ASSEMBLE run alone
MaxElems == 251
\* full cards the card source sends in the long run of S35_Reformat
MaxFullCards == 125

VARIABLES
    prog,       \* the function under execution
    callpc,     \* position of the caller inside S35_Reformat / S36_ConwayProblem
    mid,        \* the function the middle goroutine runs
    closedBy,   \* per channel, the processes that have called close on it
    panic,      \* the run-time panic raised, "none" while there is none
    delivered,  \* per channel, the number of values sent and received on it
    dpc,        \* S33_DISASSEMBLE: position
    cardimage,  \* S33_DISASSEMBLE: cardimage
    di,         \* S33_DISASSEMBLE: i
    xpc,        \* S31_COPY / S32_SQUASH / S32_SQUASH_EX: position
    c,          \* S31_COPY / S32_SQUASH / S32_SQUASH_EX: c
    apc,        \* S34_ASSEMBLE: position
    lineimage,  \* S34_ASSEMBLE: lineimage
    ai,         \* S34_ASSEMBLE: i
    cards,      \* the cards the source has sent on cardfile, in order
    chars,      \* the characters the source has sent to a transducer run alone
    outchars,   \* the characters the consumer has received from a transducer run alone
    lines,      \* the lines the consumer has received from lineprinter
    sinkpc      \* the consumer: "recv" until it sees its channel closed, then "done"

vars == <<prog, callpc, mid, closedBy, panic, delivered, dpc, cardimage, di, xpc, c,
          apc, lineimage, ai, cards, chars, outchars, lines, sinkpc>>

chanvars == <<closedBy, panic, delivered>>
dvars == <<dpc, cardimage, di>>
xvars == <<xpc, c>>
avars == <<apc, lineimage, ai>>
callvars == <<prog, callpc, mid>>
srcvars == <<cards, chars>>
sinkvars == <<outchars, lines, sinkpc>>

Channels == {"cardfile", "west", "east", "lineprinter"}

(***************************************************************************)
(* Channel operations.                                                     *)
(***************************************************************************)
IsClosed(ch) == closedBy[ch] # <<>>

\* close(ch) by process p; closing a closed channel panics
Close(ch, p) ==
    /\ closedBy' = [closedBy EXCEPT ![ch] = Append(@, p)]
    /\ panic' = IF IsClosed(ch) THEN "close of closed channel" ELSE panic
    /\ UNCHANGED delivered

\* ch <- v as a joint step with the receiver's step Recv; on a closed
\* channel the send panics and nobody receives
Transfer(ch, Recv, rvars) ==
    /\ UNCHANGED closedBy
    /\ IF IsClosed(ch)
         THEN /\ panic' = "send on closed channel"
              /\ UNCHANGED <<rvars, delivered>>
         ELSE /\ Recv
              /\ delivered' = [delivered EXCEPT ![ch] = @ + 1]
              /\ UNCHANGED panic

(***************************************************************************)
(* string(rune) and string([]rune): every rune that is no Unicode scalar   *)
(* value is converted to U+FFFD.  A string is modelled as the sequence of  *)
(* its characters.                                                         *)
(***************************************************************************)
ValidRune(r) ==
    /\ r >= 0
    /\ r <= 1114111
    /\ ~(r >= 55296 /\ r <= 57343)

StringOfRune(r) == IF ValidRune(r) THEN <<r>> ELSE <<65533>>

StringOfRunes(rs) ==
    [k \in 1..Len(rs) |-> IF ValidRune(rs[k]) THEN rs[k] ELSE 65533]

(***************************************************************************)
(* S31_COPY(west, east)                                                    *)
(***************************************************************************)
\* faulty variant of S31_COPY_recv: arrows are received and not passed on
S31_COPY_recv_skipping(v) ==
    /\ xpc = "recv"
    /\ c' = v
    /\ xpc' = IF v = Arrow THEN "recv" ELSE "send_c"

\* faulty variant of S31_COPY_recv: a value is received while the one
\* before is still to be sent, and replaces it
S31_COPY_recv_overrun(v) ==
    /\ xpc \in {"recv", "send_c"}
    /\ c' = v
    /\ xpc' = "send_c"

\* for c := range west: a value arrives
S31_COPY_recv(v) ==
    /\ xpc = "recv"
    /\ c' = v
    /\ xpc' = "send_c"

\* for c := range west: west is closed
S31_COPY_closed ==
    /\ xpc = "recv"
    /\ xpc' = "close"
    /\ UNCHANGED c

\* east <- c
S31_COPY_send(v) ==
    /\ xpc = "send_c"
    /\ v = c
    /\ xpc' = "recv"
    /\ UNCHANGED c

\* faulty variant of S31_COPY_close: returns without closing east
S31_COPY_close_missing ==
    /\ xpc = "close"
    /\ xpc' = "done"
    /\ UNCHANGED <<c, chanvars>>

\* close(east)
S31_COPY_close ==
    /\ xpc = "close"
    /\ Close("east", "S31_COPY")
    /\ xpc' = "done"
    /\ UNCHANGED c

(***************************************************************************)
(* S32_SQUASH(west, east)                                                  *)
(***************************************************************************)
\* faulty variant of S32_SQUASH_recv: the arrow is taken for a marker too
S32_SQUASH_recv_arrow(v) ==
    /\ xpc = "recv"
    /\ c' = v
    /\ xpc' = IF v # Star /\ v # Arrow THEN "send_c" ELSE "recv2"

\* c, ok := <-west (line 109), ok: then the tests of lines 113 and 116
S32_SQUASH_recv(v) ==
    /\ xpc = "recv"
    /\ c' = v
    /\ xpc' = IF StringOfRune(v) # <<Star>> THEN "send_c" ELSE "recv2"

\* c, ok := <-west (line 109), !ok: c is the zero rune, break
S32_SQUASH_closed ==
    /\ xpc = "recv"
    /\ c' = 0
    /\ xpc' = "close"

\* c, ok = <-west (line 117), ok: then the tests of lines 121 and 125
S32_SQUASH_recv2(v) ==
    /\ xpc = "recv2"
    /\ c' = v
    /\ xpc' = IF StringOfRune(v) # <<Star>> THEN "send_star" ELSE "send_arrow"

\* faulty variant of S32_SQUASH_closed2: the pending asterisk is not
\* dropped, an arrow is sent for it
S32_SQUASH_closed2_arrow ==
    /\ xpc = "recv2"
    /\ c' = 0
    /\ xpc' = "send_arrow"

\* c, ok = <-west (line 117), !ok: break, the pending asterisk is dropped
S32_SQUASH_closed2 ==
    /\ xpc = "recv2"
    /\ c' = 0
    /\ xpc' = "close"

\* faulty variant of S32_SQUASH_send: an asterisk is sent for a pair
S32_SQUASH_send_marker(v) ==
    /\ UNCHANGED c
    /\ \/ xpc = "send_c" /\ v = c /\ xpc' = "recv"
       \/ xpc = "send_star" /\ v = Star /\ xpc' = "send_c2"
       \/ xpc = "send_c2" /\ v = c /\ xpc' = "recv"
       \/ xpc = "send_arrow" /\ v = Star /\ xpc' = "recv"

\* the sends of lines 114, 122, 123 and 126
S32_SQUASH_send(v) ==
    /\ UNCHANGED c
    /\ \/ xpc = "send_c" /\ v = c /\ xpc' = "recv"
       \/ xpc = "send_star" /\ v = Star /\ xpc' = "send_c2"
       \/ xpc = "send_c2" /\ v = c /\ xpc' = "recv"
       \/ xpc = "send_arrow" /\ v = Arrow /\ xpc' = "recv"

\* close(east)
S32_SQUASH_close ==
    /\ xpc = "close"
    /\ Close("east", "S32_SQUASH")
    /\ xpc' = "done"
    /\ UNCHANGED c

(***************************************************************************)
(* S32_SQUASH_EX(west, east)                                               *)
(***************************************************************************)
\* c, ok := <-west (line 148), ok: then the tests of lines 152 and 155
S32_SQUASH_EX_recv(v) ==
    /\ xpc = "recv"
    /\ c' = v
    /\ xpc' = IF v # Star THEN "send_c" ELSE "recv2"

\* c, ok := <-west (line 148), !ok: c is the zero rune, break
S32_SQUASH_EX_closed ==
    /\ xpc = "recv"
    /\ c' = 0
    /\ xpc' = "close"

\* faulty variant of S32_SQUASH_EX_recv2: a pair is never replaced
S32_SQUASH_EX_recv2_nopair(v) ==
    /\ xpc = "recv2"
    /\ c' = v
    /\ xpc' = "send_star"

\* c, ok = <-west (line 156), ok: then the tests of lines 161 and 165
S32_SQUASH_EX_recv2(v) ==
    /\ xpc = "recv2"
    /\ c' = v
    /\ xpc' = IF v # Star THEN "send_star" ELSE "send_arrow"

\* faulty variant of S32_SQUASH_EX_closed2: the pending asterisk is dropped
S32_SQUASH_EX_closed2_dropping ==
    /\ xpc = "recv2"
    /\ c' = 0
    /\ xpc' = "close"

\* c, ok = <-west (line 156), !ok: c is the zero rune, the pending asterisk
\* is sent next
S32_SQUASH_EX_closed2 ==
    /\ xpc = "recv2"
    /\ c' = 0
    /\ xpc' = "send_dangling"

\* the sends of lines 153, 158, 162, 163 and 166
S32_SQUASH_EX_send(v) ==
    /\ UNCHANGED c
    /\ \/ xpc = "send_c" /\ v = c /\ xpc' = "recv"
       \/ xpc = "send_dangling" /\ v = Star /\ xpc' = "close"
       \/ xpc = "send_star" /\ v = Star /\ xpc' = "send_c2"
       \/ xpc = "send_c2" /\ v = c /\ xpc' = "recv"
       \/ xpc = "send_arrow" /\ v = Arrow /\ xpc' = "recv"

\* close(east)
S32_SQUASH_EX_close ==
    /\ xpc = "close"
    /\ Close("east", "S32_SQUASH_EX")
    /\ xpc' = "done"
    /\ UNCHANGED c

(***************************************************************************)
(* The middle goroutine: whichever of the three functions it runs.         *)
(***************************************************************************)
MID_recv(v) ==
    \/ mid = "S31_COPY" /\ S31_COPY_recv(v)
    \/ mid = "S32_SQUASH" /\ (S32_SQUASH_recv(v) \/ S32_SQUASH_recv2(v))
    \/ mid = "S32_SQUASH_EX" /\ (S32_SQUASH_EX_recv(v) \/ S32_SQUASH_EX_recv2(v))

MID_closed ==
    \/ mid = "S31_COPY" /\ S31_COPY_closed
    \/ mid = "S32_SQUASH" /\ (S32_SQUASH_closed \/ S32_SQUASH_closed2)
    \/ mid = "S32_SQUASH_EX" /\ (S32_SQUASH_EX_closed \/ S32_SQUASH_EX_closed2)

MID_send(v) ==
    \/ mid = "S31_COPY" /\ S31_COPY_send(v)
    \/ mid = "S32_SQUASH" /\ S32_SQUASH_send(v)
    \/ mid = "S32_SQUASH_EX" /\ S32_SQUASH_EX_send(v)

MID_close ==
    \/ mid = "S31_COPY" /\ S31_COPY_close
    \/ mid = "S32_SQUASH" /\ S32_SQUASH_close
    \/ mid = "S32_SQUASH_EX" /\ S32_SQUASH_EX_close

(***************************************************************************)
(* S33_DISASSEMBLE(cardfile, X); X is west.                                *)
(***************************************************************************)
\* faulty variant of S33_DISASSEMBLE_recv: a long card is not cut to 80
S33_DISASSEMBLE_recv_uncut(tmp) ==
    /\ dpc = "range"
    /\ cardimage' = cardimage \o tmp
    /\ di' = 0
    /\ dpc' = IF 0 < Len(cardimage') THEN "send" ELSE "space"

\* for tmp := range cardfile: a card arrives; lines 188-192 and the first
\* test of the loop of line 193
S33_DISASSEMBLE_recv(tmp) ==
    /\ dpc = "range"
    /\ cardimage' = cardimage \o (IF Len(tmp) > CardWidth
                                    THEN SubSeq(tmp, 1, CardWidth)
                                    ELSE SubSeq(tmp, 1, Len(tmp)))
    /\ di' = 0
    /\ dpc' = IF 0 < Len(cardimage') THEN "send" ELSE "space"

\* for tmp := range cardfile: cardfile is closed
S33_DISASSEMBLE_closed ==
    /\ dpc = "range"
    /\ dpc' = "close"
    /\ UNCHANGED <<cardimage, di>>

\* faulty variant of S33_DISASSEMBLE_send: X is closed after the first card
S33_DISASSEMBLE_send_closing(v) ==
    \/ /\ dpc = "send"
       /\ v = cardimage[di + 1]
       /\ di' = di + 1
       /\ dpc' = IF di + 1 < Len(cardimage) THEN "send" ELSE "space"
       /\ UNCHANGED cardimage
    \/ /\ dpc = "space"
       /\ v = Space
       /\ cardimage' = <<>>
       /\ dpc' = "close"
       /\ UNCHANGED di

\* faulty variant of S33_DISASSEMBLE_send: no space is sent after a card
S33_DISASSEMBLE_send_unseparated(v) ==
    /\ dpc = "send"
    /\ v = cardimage[di + 1]
    /\ di' = di + 1
    /\ IF di + 1 < Len(cardimage)
         THEN dpc' = "send" /\ UNCHANGED cardimage
         ELSE dpc' = "range" /\ cardimage' = <<>>

\* faulty variant of S33_DISASSEMBLE_send: cardimage is not emptied after
\* the separator
S33_DISASSEMBLE_send_keeping(v) ==
    \/ /\ dpc = "send"
       /\ v = cardimage[di + 1]
       /\ di' = di + 1
       /\ dpc' = IF di + 1 < Len(cardimage) THEN "send" ELSE "space"
       /\ UNCHANGED cardimage
    \/ /\ dpc = "space"
       /\ v = Space
       /\ dpc' = "range"
       /\ UNCHANGED <<cardimage, di>>

\* X <- cardimage[i]; i++ (lines 193-195) and X <- ' '; cardimage =
\* cardimage[:0] (lines 196-197)
S33_DISASSEMBLE_send(v) ==
    \/ /\ dpc = "send"
       /\ v = cardimage[di + 1]
       /\ di' = di + 1
       /\ dpc' = IF di + 1 < Len(cardimage) THEN "send" ELSE "space"
       /\ UNCHANGED cardimage
    \/ /\ dpc = "space"
       /\ v = Space
       /\ cardimage' = <<>>
       /\ dpc' = "range"
       /\ UNCHANGED di

\* close(X)
S33_DISASSEMBLE_close ==
    /\ dpc = "close"
    /\ Close("west", "S33_DISASSEMBLE")
    /\ dpc' = "done"
    /\ UNCHANGED <<cardimage, di>>

(***************************************************************************)
(* S34_ASSEMBLE(X, lineprinter); X is east.  Go's lineimage[i] is          *)
(* lineimage[i + 1] here.                                                  *)
(***************************************************************************)
\* faulty variant of S34_ASSEMBLE_recv: the last position of a full line is
\* filled with a space
S34_ASSEMBLE_recv_clobbering(v) ==
    /\ apc = "range"
    /\ LET stored == [lineimage EXCEPT ![ai + 1] = v]
           i1 == IF ai <= LastIndex THEN ai + 1 ELSE ai
       IN  IF i1 = LineWidth
             THEN /\ lineimage' = [stored EXCEPT ![i1] = Space]
                  /\ ai' = i1
                  /\ apc' = "send_line"
             ELSE /\ lineimage' = stored
                  /\ ai' = i1
                  /\ apc' = "range"

\* for c := range X: a value arrives; lines 234-239
S34_ASSEMBLE_recv(v) ==
    /\ apc = "range"
    /\ LET stored == [lineimage EXCEPT ![ai + 1] = v]
           i1 == IF ai <= LastIndex THEN ai + 1 ELSE ai
       IN  IF i1 = LineWidth
             THEN /\ lineimage' = [stored EXCEPT ![i1] = v]
                  /\ ai' = i1
                  /\ apc' = "send_line"
             ELSE /\ lineimage' = stored
                  /\ ai' = i1
                  /\ apc' = "range"

\* faulty variant of S34_ASSEMBLE_closed: lineprinter is closed at once, the
\* partial line is not sent
S34_ASSEMBLE_closed_hasty ==
    /\ apc = "range"
    /\ apc' = "close"
    /\ UNCHANGED <<lineimage, ai>>

\* faulty variant of S34_ASSEMBLE_closed: a last line is sent even when no
\* element is waiting
S34_ASSEMBLE_closed_always ==
    /\ apc = "range"
    /\ lineimage' = [k \in 1..LineWidth |->
                       IF k - 1 >= ai /\ k - 1 <= LastIndex
                         THEN Space ELSE lineimage[k]]
    /\ ai' = LastIndex + 1
    /\ apc' = "send_last"

\* faulty variant of S34_ASSEMBLE_closed: the last line is sent as it is,
\* without the spaces
S34_ASSEMBLE_closed_unpadded ==
    /\ apc = "range"
    /\ IF ai > 0
         THEN /\ ai' = LastIndex + 1
              /\ apc' = "send_last"
              /\ UNCHANGED lineimage
         ELSE /\ apc' = "close"
              /\ UNCHANGED <<lineimage, ai>>

\* for c := range X: X is closed; lines 244-248
S34_ASSEMBLE_closed ==
    /\ apc = "range"
    /\ IF ai > 0
         THEN /\ lineimage' = [k \in 1..LineWidth |->
                                 IF k - 1 >= ai /\ k - 1 <= LastIndex
                                   THEN Space ELSE lineimage[k]]
              /\ ai' = IF ai <= LastIndex THEN LastIndex + 1 ELSE ai
              /\ apc' = "send_last"
         ELSE /\ apc' = "close"
              /\ UNCHANGED <<lineimage, ai>>

\* faulty variant of S34_ASSEMBLE_send: leaves the loop after the first line
S34_ASSEMBLE_send_once(l) ==
    /\ l = StringOfRunes(lineimage)
    /\ UNCHANGED lineimage
    /\ \/ apc = "send_line" /\ ai' = 0 /\ apc' = "close"
       \/ apc = "send_last" /\ apc' = "close" /\ UNCHANGED ai

\* lineprinter <- string(lineimage); i = 0 (lines 240-241) and
\* lineprinter <- string(lineimage) (line 249)
S34_ASSEMBLE_send(l) ==
    /\ l = StringOfRunes(lineimage)
    /\ UNCHANGED lineimage
    /\ \/ apc = "send_line" /\ ai' = 0 /\ apc' = "range"
       \/ apc = "send_last" /\ apc' = "close" /\ UNCHANGED ai

\* faulty variant of S34_ASSEMBLE_close: lineprinter is closed again
S34_ASSEMBLE_close_twice ==
    /\ apc = "close"
    /\ Close("lineprinter", "S34_ASSEMBLE")
    /\ apc' = IF IsClosed("lineprinter") THEN "done" ELSE "close"
    /\ UNCHANGED <<lineimage, ai>>

\* close(lineprinter); return
S34_ASSEMBLE_close ==
    /\ apc = "close"
    /\ Close("lineprinter", "S34_ASSEMBLE")
    /\ apc' = "done"
    /\ UNCHANGED <<lineimage, ai>>

(***************************************************************************)
(* S35_Reformat and S36_ConwayProblem: the two channels west and east are  *)
(* made, the two goroutines are started and S34_ASSEMBLE runs in the       *)
(* caller; the function returns when S34_ASSEMBLE has returned.            *)
(***************************************************************************)
S35_Reformat_call ==
    /\ prog = "S35_Reformat"
    /\ callpc = "start"
    /\ dpc' = "range"
    /\ mid' = "S31_COPY"
    /\ xpc' = "recv"
    /\ apc' = "range"
    /\ callpc' = "assemble"

\* faulty variant of S35_Reformat_return: S34_ASSEMBLE is started as a
\* goroutine too and the function returns at once
S35_Reformat_return_early ==
    /\ prog = "S35_Reformat"
    /\ callpc = "assemble"
    /\ callpc' = "returned"

S35_Reformat_return ==
    /\ prog = "S35_Reformat"
    /\ callpc = "assemble"
    /\ apc = "done"
    /\ callpc' = "returned"

S36_ConwayProblem_call ==
    /\ prog = "S36_ConwayProblem"
    /\ callpc = "start"
    /\ dpc' = "range"
    /\ mid' = "S32_SQUASH_EX"
    /\ xpc' = "recv"
    /\ apc' = "range"
    /\ callpc' = "assemble"

S36_ConwayProblem_return ==
    /\ prog = "S36_ConwayProblem"
    /\ callpc = "assemble"
    /\ apc = "done"
    /\ callpc' = "returned"

(***************************************************************************)
(* The programs and their surroundings.  A pipeline or a transducer is     *)
(* given open channels by a driver: a source that sends on the input       *)
(* channel and may close it, and a consumer that receives from the output  *)
(* channel until it is closed.                                             *)
(***************************************************************************)
Pipelines == {"S35_Reformat", "S36_ConwayProblem"}
Middles == {"S31_COPY", "S32_SQUASH", "S32_SQUASH_EX"}
Programs == Pipelines \cup Middles \cup {"S33_DISASSEMBLE", "S34_ASSEMBLE"}

\* the channel the source sends on, and the one the consumer receives from
SrcChan ==
    IF prog \in Middles THEN "west"
    ELSE IF prog = "S34_ASSEMBLE" THEN "east" ELSE "cardfile"

SinkChan ==
    IF prog \in Middles THEN "east"
    ELSE IF prog = "S33_DISASSEMBLE" THEN "west" ELSE "lineprinter"

\* the characters sent to S31_COPY, S32_SQUASH and S32_SQUASH_EX run alone
Alphabet == {97, Star, Arrow}

\* the k-th character of the text the inputs are cut from: letters that
\* change with the position, spaces, single asterisks and pairs of them
ElemAt(k) ==
    IF k % 11 \in {4, 5, 8} THEN Star
    ELSE IF k % 4 = 0 THEN Space ELSE 97 + (k % 5)

\* the cards of the inputs: the first n characters of the text, or n times
\* the same character
TextCard(n) == [k \in 1..n |-> ElemAt(k)]

CardOf(n, f) == [k \in 1..n |-> f]

\* an empty card, a card that with a full card before it fills a line
\* exactly, a full card, a card one element too long; one asterisk and a
\* full card of asterisks
TextLens == {0, LineWidth - CardWidth - 2, CardWidth, CardWidth + 1}

Cards == {TextCard(n) : n \in TextLens} \cup {CardOf(n, Star) : n \in {1, CardWidth}}

\* the source sends a card
SRC_sendcard(card) ==
    /\ SrcChan = "cardfile"
    /\ ~IsClosed("cardfile")
    /\ Len(cards) < MaxCards
    /\ cards' = Append(cards, card)
    /\ UNCHANGED chars

\* the source sends a character
SRC_sendchar(v) ==
    /\ \/ SrcChan = "west" /\ Len(chars) < MaxChars /\ v \in Alphabet
       \/ SrcChan = "east" /\ Len(chars) < MaxElems /\ v = ElemAt(Len(chars) + 1)
    /\ ~IsClosed(SrcChan)
    /\ chars' = Append(chars, v)
    /\ UNCHANGED cards

\* the source closes its channel
SRC_close ==
    /\ ~IsClosed(SrcChan)
    /\ Close(SrcChan, "source")

\* the consumer receives a character
SINK_recvchar(v) ==
    /\ sinkpc = "recv"
    /\ outchars' = Append(outchars, v)
    /\ UNCHANGED <<lines, sinkpc>>

\* the consumer receives a line
SINK_recvline(l) ==
    /\ sinkpc = "recv"
    /\ lines' = Append(lines, l)
    /\ UNCHANGED <<outchars, sinkpc>>

\* the consumer sees its channel closed
SINK_closed ==
    /\ sinkpc = "recv"
    /\ IsClosed(SinkChan)
    /\ sinkpc' = "done"
    /\ UNCHANGED <<outchars, lines>>

Runes == Alphabet \cup {0, Space} \cup {ElemAt(k) : k \in 1..MaxElems}

(***************************************************************************)
(* The steps.                                                              *)
(***************************************************************************)
Running == panic = "none"

Call ==
    /\ Running
    /\ S35_Reformat_call \/ S36_ConwayProblem_call
    /\ UNCHANGED <<prog, chanvars, cardimage, di, c, lineimage, ai>>
    /\ UNCHANGED <<srcvars, sinkvars>>

Return ==
    /\ Running
    /\ S35_Reformat_return \/ S36_ConwayProblem_return
    /\ UNCHANGED <<prog, mid, chanvars, dvars, xvars, avars>>
    /\ UNCHANGED <<srcvars, sinkvars>>

\* cardfile: source -> S33_DISASSEMBLE
CardfileTransfer ==
    /\ Running
    /\ \E card \in Cards :
         /\ SRC_sendcard(card)
         /\ Transfer("cardfile", S33_DISASSEMBLE_recv(card), dvars)
    /\ UNCHANGED <<callvars, xvars, avars, sinkvars>>

\* west: S33_DISASSEMBLE -> the middle goroutine
WestDisMid ==
    /\ Running
    /\ prog \in Pipelines
    /\ \E v \in Runes :
         /\ S33_DISASSEMBLE_send(v)
         /\ Transfer("west", MID_recv(v), xvars)
    /\ UNCHANGED <<callvars, avars, srcvars, sinkvars>>

\* west: source -> S31_COPY, S32_SQUASH or S32_SQUASH_EX run alone
WestSrcMid ==
    /\ Running
    /\ prog \in Middles
    /\ \E v \in Runes :
         /\ SRC_sendchar(v)
         /\ Transfer("west", MID_recv(v), xvars)
    /\ UNCHANGED <<callvars, dvars, avars, sinkvars>>

\* west: S33_DISASSEMBLE run alone -> consumer
WestDisSink ==
    /\ Running
    /\ prog = "S33_DISASSEMBLE"
    /\ \E v \in Runes :
         /\ S33_DISASSEMBLE_send(v)
         /\ Transfer("west", SINK_recvchar(v), sinkvars)
    /\ UNCHANGED <<callvars, xvars, avars, srcvars>>

\* east: the middle goroutine -> S34_ASSEMBLE
EastMidAsm ==
    /\ Running
    /\ prog \in Pipelines
    /\ \E v \in Runes :
         /\ MID_send(v)
         /\ Transfer("east", S34_ASSEMBLE_recv(v), avars)
    /\ UNCHANGED <<callvars, dvars, srcvars, sinkvars>>

\* east: S31_COPY, S32_SQUASH or S32_SQUASH_EX run alone -> consumer
EastMidSink ==
    /\ Running
    /\ prog \in Middles
    /\ \E v \in Runes :
         /\ MID_send(v)
         /\ Transfer("east", SINK_recvchar(v), sinkvars)
    /\ UNCHANGED <<callvars, dvars, avars, srcvars>>

\* east: source -> S34_ASSEMBLE run alone
EastSrcAsm ==
    /\ Running
    /\ prog = "S34_ASSEMBLE"
    /\ \E v \in Runes :
         /\ SRC_sendchar(v)
         /\ Transfer("east", S34_ASSEMBLE_recv(v), avars)
    /\ UNCHANGED <<callvars, dvars, xvars, sinkvars>>

\* lineprinter: S34_ASSEMBLE -> consumer
LineprinterTransfer ==
    /\ Running
    /\ LET l == StringOfRunes(lineimage)
       IN  /\ S34_ASSEMBLE_send(l)
           /\ Transfer("lineprinter", SINK_recvline(l), sinkvars)
    /\ UNCHANGED <<callvars, dvars, xvars, srcvars>>

\* a receiver sees its input channel closed
DisClosed ==
    /\ Running
    /\ IsClosed("cardfile")
    /\ S33_DISASSEMBLE_closed
    /\ UNCHANGED <<callvars, chanvars, xvars, avars, srcvars, sinkvars>>

MidClosed ==
    /\ Running
    /\ IsClosed("west")
    /\ MID_closed
    /\ UNCHANGED <<callvars, chanvars, dvars, avars, srcvars, sinkvars>>

AsmClosed ==
    /\ Running
    /\ IsClosed("east")
    /\ S34_ASSEMBLE_closed
    /\ UNCHANGED <<callvars, chanvars, dvars, xvars, srcvars, sinkvars>>

SinkClosed ==
    /\ Running
    /\ SINK_closed
    /\ UNCHANGED <<callvars, chanvars, dvars, xvars, avars, srcvars>>

\* a sender closes its output channel
SrcClose ==
    /\ Running
    /\ SRC_close
    /\ UNCHANGED <<callvars, dvars, xvars, avars, srcvars, sinkvars>>

DisClose ==
    /\ Running
    /\ S33_DISASSEMBLE_close
    /\ UNCHANGED <<callvars, xvars, avars, srcvars, sinkvars>>

MidClose ==
    /\ Running
    /\ MID_close
    /\ UNCHANGED <<callvars, dvars, avars, srcvars, sinkvars>>

AsmClose ==
    /\ Running
    /\ S34_ASSEMBLE_close
    /\ UNCHANGED <<callvars, dvars, xvars, srcvars, sinkvars>>

Init ==
    /\ prog \in Programs
    /\ callpc = IF prog \in Pipelines THEN "start" ELSE "none"
    /\ mid = IF prog \in Middles THEN prog ELSE "none"
    /\ closedBy = [ch \in Channels |-> <<>>]
    /\ panic = "none"
    /\ delivered = [ch \in Channels |-> 0]
    /\ dpc = IF prog = "S33_DISASSEMBLE" THEN "range" ELSE "idle"
    /\ cardimage = <<>>
    /\ di = 0
    /\ xpc = IF prog \in Middles THEN "recv" ELSE "idle"
    /\ c = 0
    /\ apc = IF prog = "S34_ASSEMBLE" THEN "range" ELSE "idle"
    /\ lineimage = [k \in 1..LineWidth |-> 0]
    /\ ai = 0
    /\ cards = <<>>
    /\ chars = <<>>
    /\ outchars = <<>>
    /\ lines = <<>>
    /\ sinkpc = "recv"

Next ==
    \/ Call
    \/ Return
    \/ CardfileTransfer
    \/ WestDisMid
    \/ WestSrcMid
    \/ WestDisSink
    \/ EastMidAsm
    \/ EastMidSink
    \/ EastSrcAsm
    \/ LineprinterTransfer
    \/ DisClosed
    \/ MidClosed
    \/ AsmClosed
    \/ SinkClosed
    \/ SrcClose
    \/ DisClose
    \/ MidClose
    \/ AsmClose

Spec == Init /\ [][Next]_vars

(***************************************************************************)
(* The two pipelines alone, with fairness: the Go scheduler runs every     *)
(* goroutine that can take a step, and the consumer keeps receiving.  The  *)
(* source is free to stay silent.                                          *)
(***************************************************************************)
PipelineInit == Init /\ prog \in Pipelines

PipelineNext ==
    \/ Call
    \/ Return
    \/ CardfileTransfer
    \/ WestDisMid
    \/ EastMidAsm
    \/ LineprinterTransfer
    \/ DisClosed
    \/ MidClosed
    \/ AsmClosed
    \/ SinkClosed
    \/ SrcClose
    \/ DisClose
    \/ MidClose
    \/ AsmClose

Fairness ==
    /\ WF_vars(Call) /\ WF_vars(Return)
    /\ WF_vars(WestDisMid)
    /\ WF_vars(EastMidAsm)
    /\ WF_vars(LineprinterTransfer)
    /\ WF_vars(DisClosed) /\ WF_vars(MidClosed)
    /\ WF_vars(AsmClosed) /\ WF_vars(SinkClosed)
    /\ WF_vars(DisClose) /\ WF_vars(MidClose) /\ WF_vars(AsmClose)

FairSpec == PipelineInit /\ [][PipelineNext]_vars /\ Fairness

(***************************************************************************)
(* S35_Reformat on a long card file: the source sends full cards of 80     *)
(* elements only and the consumer keeps the last line it has received;     *)
(* the cards sent and the lines received are counted by delivered.         *)
(***************************************************************************)
\* the source sends a full card
SRC_sendfullcard(card) ==
    /\ SrcChan = "cardfile"
    /\ ~IsClosed("cardfile")
    /\ delivered["cardfile"] < MaxFullCards
    /\ card = TextCard(CardWidth)
    /\ UNCHANGED <<cards, chars>>

\* the consumer receives a line and forgets the one before
SINK_recvlastline(l) ==
    /\ sinkpc = "recv"
    /\ lines' = <<l>>
    /\ UNCHANGED <<outchars, sinkpc>>

\* cardfile: source -> S33_DISASSEMBLE
FullCardTransfer ==
    /\ Running
    /\ LET card == TextCard(CardWidth)
       IN  /\ SRC_sendfullcard(card)
           /\ Transfer("cardfile", S33_DISASSEMBLE_recv(card), dvars)
    /\ UNCHANGED <<callvars, xvars, avars, sinkvars>>

\* lineprinter: S34_ASSEMBLE -> consumer
LineprinterLastTransfer ==
    /\ Running
    /\ LET l == StringOfRunes(lineimage)
       IN  /\ S34_ASSEMBLE_send(l)
           /\ Transfer("lineprinter", SINK_recvlastline(l), sinkvars)
    /\ UNCHANGED <<callvars, dvars, xvars, srcvars>>

RoundTripInit == Init /\ prog = "S35_Reformat"

RoundTripNext ==
    \/ Call
    \/ Return
    \/ FullCardTransfer
    \/ WestDisMid
    \/ EastMidAsm
    \/ LineprinterLastTransfer
    \/ DisClosed
    \/ MidClosed
    \/ AsmClosed
    \/ SinkClosed
    \/ SrcClose
    \/ DisClose
    \/ MidClose
    \/ AsmClose

RoundTripSpec == RoundTripInit /\ [][RoundTripNext]_vars

(***************************************************************************)
(* The streams the claims speak of.                                        *)
(***************************************************************************)
Min(a, b) == IF a < b THEN a ELSE b

\* the first min(len(card), 80) elements of every card, each followed by
\* one space
RECURSIVE CardStream(_)
CardStream(cs) ==
    IF cs = <<>> THEN <<>>
    ELSE SubSeq(Head(cs), 1, Min(Len(Head(cs)), CardWidth)) \o <<Space>>
             \o CardStream(Tail(cs))

\* s followed by just enough spaces to reach a multiple of 125
PadToLines(s) ==
    s \o [k \in 1..((LineWidth - (Len(s) % LineWidth)) % LineWidth) |-> Space]

\* the concatenation of lines
RECURSIVE Concat(_)
Concat(ls) == IF ls = <<>> THEN <<>> ELSE Head(ls) \o Concat(Tail(ls))

\* left to right, every pair of consecutive asterisks becomes one arrow.
\* The scan is in state "N", or in state "P" after an asterisk that may
\* still be paired; ScanOne is the scan of one element, ScanThen the scan
\* of a stretch followed by the scan of the next stretch.
ScanOne(x) ==
    [N |-> [out |-> IF x = Star THEN <<>> ELSE <<x>>,
            to |-> IF x = Star THEN "P" ELSE "N"],
     P |-> [out |-> IF x = Star THEN <<Arrow>> ELSE <<Star, x>>,
            to |-> "N"]]

ScanThen(a, b) ==
    [q \in {"N", "P"} |->
        [out |-> a[q].out \o b[a[q].to].out, to |-> b[a[q].to].to]]

RECURSIVE Scan(_, _, _)
Scan(s, lo, hi) ==
    IF lo = hi THEN ScanOne(s[lo])
    ELSE LET m == (lo + hi) \div 2
         IN  ScanThen(Scan(s, lo, m), Scan(s, m + 1, hi))

\* an asterisk left unpaired at the end of the stream is kept
PairsToArrows(s) ==
    IF s = <<>> THEN <<>>
    ELSE LET r == Scan(s, 1, Len(s)).N
         IN  r.out \o (IF r.to = "P" THEN <<Star>> ELSE <<>>)

AllLinesFull == \A k \in 1..Len(lines) : Len(lines[k]) = LineWidth

\* C1: S35_Reformat, once the consumer has seen lineprinter closed: the
\* lines received, concatenated, are the cards' first 80 elements each
\* followed by one space, padded with spaces to a multiple of 125, and
\* every line has 125 elements.
C1_ReformatLines ==
    (prog = "S35_Reformat" /\ sinkpc = "done") =>
        /\ Concat(lines) = PadToLines(CardStream(cards))
        /\ AllLinesFull

\* one card of 80 elements has given one line: the card, one space, 44 spaces
C1_Witness ==
    /\ prog = "S35_Reformat"
    /\ sinkpc = "done"
    /\ cards = <<TextCard(CardWidth)>>
    /\ lines = <<TextCard(CardWidth) \o <<Space>> \o CardOf(44, Space)>>

\* the stream S34_ASSEMBLE is fed in a pipeline
PipelineStream ==
    IF prog = "S36_ConwayProblem"
      THEN PairsToArrows(CardStream(cards))
      ELSE CardStream(cards)

\* C2: S36_ConwayProblem, once the consumer has seen lineprinter closed:
\* the lines received are the character stream of the cards with every
\* pair of consecutive asterisks, left to right, replaced by one arrow,
\* cut into lines of 125 with the last line padded with spaces.
C2_ConwayLines ==
    (prog = "S36_ConwayProblem" /\ sinkpc = "done") =>
        /\ Concat(lines) = PadToLines(PairsToArrows(CardStream(cards)))
        /\ AllLinesFull

\* one card of 80 asterisks has given one line: 40 arrows and 85 spaces
C2_Witness ==
    /\ prog = "S36_ConwayProblem"
    /\ sinkpc = "done"
    /\ cards = <<CardOf(CardWidth, Star)>>
    /\ lines = <<CardOf(40, Arrow) \o CardOf(85, Space)>>

AllClosed ==
    /\ IsClosed("west")
    /\ IsClosed("east")
    /\ IsClosed("lineprinter")

\* C3: in both pipelines, under the fairness of every stage and of the
\* consumer, once cardfile is closed the channels west, east and
\* lineprinter are eventually all closed and the call has returned.
C3_Termination ==
    (prog \in Pipelines /\ IsClosed("cardfile")) ~>
        (AllClosed /\ callpc = "returned")

\* a pipeline that was sent two cards has closed everything and returned
C3_Witness ==
    /\ prog \in Pipelines
    /\ Len(cards) = 2
    /\ IsClosed("cardfile")
    /\ AllClosed
    /\ callpc = "returned"

\* the one process that sends on a channel
Producer(ch) ==
    IF ch = "cardfile" THEN "source"
    ELSE IF ch = "west"
      THEN (IF prog \in Middles THEN "source" ELSE "S33_DISASSEMBLE")
    ELSE IF ch = "east"
      THEN (IF prog = "S34_ASSEMBLE" THEN "source" ELSE mid)
    ELSE "S34_ASSEMBLE"

\* C4: in every program, no panic is raised, every channel has been closed
\* at most once and only by its producer, and no stage stands at a send on
\* a channel that is closed.
C4_ClosedOnce ==
    /\ panic = "none"
    /\ \A ch \in Channels :
         closedBy[ch] = <<>> \/ closedBy[ch] = <<Producer(ch)>>
    /\ IsClosed("west") => dpc \notin {"send", "space"}
    /\ IsClosed("east") =>
         xpc \notin {"send_c", "send_star", "send_c2", "send_arrow",
                     "send_dangling"}
    /\ IsClosed("lineprinter") => apc \notin {"send_line", "send_last"}

\* a pipeline that has delivered a line and closed each channel once
C4_Witness ==
    /\ prog = "S36_ConwayProblem"
    /\ Len(lines) >= 1
    /\ closedBy = [cardfile |-> <<"source">>, west |-> <<"S33_DISASSEMBLE">>,
                   east |-> <<"S32_SQUASH_EX">>,
                   lineprinter |-> <<"S34_ASSEMBLE">>]

\* C5: a pipeline call has returned only if cardfile and lineprinter are
\* closed and the consumer has already received every line of the output.
C5_ReturnAfterDelivery ==
    (prog \in Pipelines /\ callpc = "returned") =>
        /\ IsClosed("cardfile")
        /\ IsClosed("lineprinter")
        /\ Concat(lines) = PadToLines(PipelineStream)
        /\ AllLinesFull

\* the call has returned with two lines delivered, the consumer has not
\* yet looked at lineprinter again
C5_Witness ==
    /\ prog \in Pipelines
    /\ callpc = "returned"
    /\ Len(lines) = 2
    /\ sinkpc = "recv"

\* C6: when a pipeline call has returned, S33_DISASSEMBLE and the middle
\* stage have made their last send and closed their output channels.
C6_StagesFinished ==
    (prog \in Pipelines /\ callpc = "returned") =>
        /\ dpc = "done"
        /\ xpc = "done"
        /\ IsClosed("west")
        /\ IsClosed("east")

\* S35_Reformat has returned after a card, both goroutines are finished
C6_Witness ==
    /\ prog = "S35_Reformat"
    /\ callpc = "returned"
    /\ Len(cards) >= 1
    /\ dpc = "done"
    /\ xpc = "done"

\* every element S34_ASSEMBLE has received is in a line delivered or in
\* the line it is filling, and nothing else is: no line was padded
OnlyReceivedElements ==
    /\ AllLinesFull
    /\ LineWidth * Len(lines) + ai = delivered["east"]

AllBlockedOnReceive ==
    /\ dpc = "range"
    /\ xpc \in {"recv", "recv2"}
    /\ apc = "range"

\* C7: in both pipelines, while cardfile is not closed, lineprinter is not
\* closed, the call has not returned and no padded line has been emitted
\* (the elements delivered in lines and the elements of the partial line
\* are exactly the elements received);
\* and if cardfile is never closed then from some point on all three
\* stages stand at a receive forever.
C7_Abandoned ==
    /\ []((prog \in Pipelines /\ ~IsClosed("cardfile")) =>
            /\ ~IsClosed("lineprinter")
            /\ callpc # "returned"
            /\ apc \notin {"send_last", "close", "done"}
            /\ OnlyReceivedElements)
    /\ (prog \in Pipelines /\ []~IsClosed("cardfile")) =>
            <>[]AllBlockedOnReceive

\* the source has sent all its cards and left cardfile open: the stages
\* wait, S34_ASSEMBLE holds a partial line
C7_Witness ==
    /\ prog \in Pipelines
    /\ ~IsClosed("cardfile")
    /\ Len(cards) = MaxCards
    /\ AllBlockedOnReceive
    /\ ai \in 1..LastIndex
    /\ Len(lines) = 1

IsPrefix(s, t) == Len(s) <= Len(t) /\ s = SubSeq(t, 1, Len(s))

\* C8: S31_COPY run alone: what the consumer has received is always a
\* prefix of what was sent, at most one element behind, and once it has
\* seen east closed it has received exactly what was sent.
C8_CopyIdentity ==
    prog = "S31_COPY" =>
        /\ IsPrefix(outchars, chars)
        /\ Len(chars) - Len(outchars) <= 1
        /\ sinkpc = "done" => (outchars = chars /\ IsClosed("east"))

\* five characters were copied
C8_Witness ==
    /\ prog = "S31_COPY"
    /\ sinkpc = "done"
    /\ chars = <<97, Star, Star, Arrow, 97>>
    /\ outchars = <<97, Star, Star, Arrow, 97>>

\* the number of consecutive asterisks at the head of s
RECURSIVE RunLen(_)
RunLen(s) ==
    IF s = <<>> \/ Head(s) # Star THEN 0 ELSE 1 + RunLen(Tail(s))

\* run by run: a maximal run of r asterisks becomes r \div 2 arrows,
\* followed by one asterisk if r is odd; everything else is kept
RECURSIVE RunsSquashed(_)
RunsSquashed(s) ==
    IF s = <<>> THEN <<>>
    ELSE IF Head(s) # Star THEN <<Head(s)>> \o RunsSquashed(Tail(s))
    ELSE LET r == RunLen(s)
         IN  CardOf(r \div 2, Arrow)
               \o (IF r % 2 = 1 THEN <<Star>> ELSE <<>>)
               \o RunsSquashed(SubSeq(s, r + 1, Len(s)))

\* C9: S32_SQUASH_EX run alone, once the consumer has seen east closed:
\* every maximal run of 2k asterisks was output as k arrows, every maximal
\* run of 2k+1 asterisks as k arrows and one asterisk, whether an element
\* follows it or the stream ends, and every other element unchanged.
C9_SquashRuns ==
    (prog = "S32_SQUASH_EX" /\ sinkpc = "done") =>
        /\ outchars = RunsSquashed(chars)
        /\ IsClosed("east")

\* a***b has given a, arrow, asterisk, b (b is an arrow of the input here)
C9_Witness ==
    /\ prog = "S32_SQUASH_EX"
    /\ sinkpc = "done"
    /\ chars = <<97, Star, Star, Star, Arrow>>
    /\ outchars = <<97, Arrow, Star, Arrow>>

NoMarker(s) == \A k \in 1..Len(s) : s[k] # Star

\* C10: S32_SQUASH and S32_SQUASH_EX run alone on a stream without an
\* asterisk: once the consumer has seen east closed it has received
\* exactly the stream that was sent.
C10_MarkerFree ==
    (prog \in {"S32_SQUASH", "S32_SQUASH_EX"} /\ sinkpc = "done"
        /\ NoMarker(chars)) =>
        (outchars = chars /\ IsClosed("east"))

\* S32_SQUASH has passed on a stream of letters and arrows
C10_Witness ==
    /\ prog = "S32_SQUASH"
    /\ sinkpc = "done"
    /\ chars = <<97, Arrow, Arrow, 97>>
    /\ outchars = <<97, Arrow, Arrow, 97>>

\* the number of asterisks at the end of s
RECURSIVE TailRunLen(_)
TailRunLen(s) ==
    IF s = <<>> \/ s[Len(s)] # Star THEN 0
    ELSE 1 + TailRunLen(SubSeq(s, 1, Len(s) - 1))

\* s ends while one asterisk is pending
EndsPending(s) == TailRunLen(s) % 2 = 1

\* left to right, every pair of consecutive asterisks becomes one arrow;
\* an asterisk left unpaired at the end of the stream is dropped
PairsToArrowsStrict(s) ==
    IF s = <<>> THEN <<>> ELSE Scan(s, 1, Len(s)).N.out

\* C11: S32_SQUASH and S32_SQUASH_EX run alone on the same input, once the
\* consumer has seen east closed: S32_SQUASH has output the strict squash
\* of the input; S32_SQUASH_EX has output the same, followed by exactly
\* one asterisk if the input ends in an odd run of asterisks and by
\* nothing otherwise.
C11_StrictLenient ==
    /\ (prog = "S32_SQUASH" /\ sinkpc = "done") =>
           outchars = PairsToArrowsStrict(chars)
    /\ (prog = "S32_SQUASH_EX" /\ sinkpc = "done") =>
           outchars = PairsToArrowsStrict(chars)
                        \o (IF EndsPending(chars) THEN <<Star>> ELSE <<>>)

\* S32_SQUASH was sent ab* and has output ab (b is an arrow of the input)
C11_Witness ==
    /\ prog = "S32_SQUASH"
    /\ sinkpc = "done"
    /\ chars = <<97, Arrow, Star>>
    /\ outchars = <<97, Arrow>>

\* the number of elements S33_DISASSEMBLE outputs for the cards cs
RECURSIVE CardStreamLen(_)
CardStreamLen(cs) ==
    IF cs = <<>> THEN 0
    ELSE (IF Len(Head(cs)) <= CardWidth THEN Len(Head(cs)) + 1
                                        ELSE CardWidth + 1)
           + CardStreamLen(Tail(cs))

\* C12: S33_DISASSEMBLE run alone: what the consumer has received on X is
\* always a prefix of the stream made of each card's first min(len, 80)
\* elements followed by one space, in the order of the cards; between two
\* cards cardimage is empty, so nothing of a card is output again with the
\* next; X is closed only when the whole stream has been received; and
\* once the consumer has seen X closed it has received exactly that
\* stream, len + 1 elements for a card of at most 80 and 81 for a longer
\* one.
C12_Disassemble ==
    prog = "S33_DISASSEMBLE" =>
        /\ IsPrefix(outchars, CardStream(cards))
        /\ dpc = "range" => cardimage = <<>>
        /\ IsClosed("west") =>
             (IsClosed("cardfile") /\ outchars = CardStream(cards))
        /\ sinkpc = "done" =>
             /\ IsClosed("west")
             /\ outchars = CardStream(cards)
             /\ Len(outchars) = CardStreamLen(cards)

\* a card of 81 elements and then a card of 43 have given 81 and then 44
\* elements
C12_Witness ==
    /\ prog = "S33_DISASSEMBLE"
    /\ sinkpc = "done"
    /\ cards = <<TextCard(CardWidth + 1), TextCard(LineWidth - CardWidth - 2)>>
    /\ Len(outchars) = CardWidth + 1 + LineWidth - CardWidth - 1
    /\ outchars[CardWidth + 1] = Space
    /\ SubSeq(outchars, CardWidth + 2, LineWidth - 1)
         = TextCard(LineWidth - CardWidth - 2)


\* the least number of lines of 125 that hold n elements
LinesFor(n) == (n + LineWidth - 1) \div LineWidth

\* C13: S34_ASSEMBLE run alone, once the consumer has seen lineprinter
\* closed after n elements were sent on X: it has received ceil(n / 125)
\* lines, each of 125 elements, and their concatenation is the n elements
\* in order followed by (125 - n mod 125) mod 125 spaces.
C13_Assemble ==
    (prog = "S34_ASSEMBLE" /\ sinkpc = "done") =>
        /\ Len(lines) = LinesFor(Len(chars))
        /\ AllLinesFull
        /\ Concat(lines)
             = chars \o CardOf((LineWidth - (Len(chars) % LineWidth))
                                 % LineWidth, Space)

\* 130 elements have given one full line and then a line of 5 elements and
\* 120 spaces
C13_Witness ==
    /\ prog = "S34_ASSEMBLE"
    /\ sinkpc = "done"
    /\ Len(chars) = LineWidth + 5
    /\ lines = <<SubSeq(chars, 1, LineWidth),
                 SubSeq(chars, LineWidth + 1, LineWidth + 5)
                   \o CardOf(LineWidth - 5, Space)>>


\* the p-th element of the stream S33_DISASSEMBLE makes of full cards
FullCardStreamAt(p) ==
    IF p % (CardWidth + 1) = 0 THEN Space ELSE ElemAt(p % (CardWidth + 1))

\* the j-th stretch of 125 elements of that stream
FullCardStreamLine(j) ==
    [k \in 1..LineWidth |-> FullCardStreamAt(LineWidth * (j - 1) + k)]

\* C14: S35_Reformat fed cards of exactly 80 elements: every line the
\* consumer receives that lies within the disassembled stream is the next
\* 125 elements of that stream (the cards with their separators); and once
\* the consumer has seen lineprinter closed, if the length of the stream,
\* 81 for each card, is a multiple of 125 then it has received exactly
\* 81 * cards / 125 lines and S34_ASSEMBLE has put no element into a line
\* that it had not received.
C14_RoundTrip ==
    /\ (delivered["lineprinter"] > 0
          /\ LineWidth * delivered["lineprinter"]
               <= (CardWidth + 1) * delivered["cardfile"]) =>
           lines = <<FullCardStreamLine(delivered["lineprinter"])>>
    /\ (sinkpc = "done"
          /\ ((CardWidth + 1) * delivered["cardfile"]) % LineWidth = 0) =>
           /\ LineWidth * delivered["lineprinter"]
                = (CardWidth + 1) * delivered["cardfile"]
           /\ LineWidth * delivered["lineprinter"] = delivered["east"]
           /\ delivered["west"] = delivered["east"]

\* 125 cards have given 81 lines, the last of them ends with the 125th
\* card's separator
C14_Witness ==
    /\ prog = "S35_Reformat"
    /\ sinkpc = "done"
    /\ delivered["cardfile"] = LineWidth
    /\ delivered["lineprinter"] = CardWidth + 1
    /\ lines = <<FullCardStreamLine(CardWidth + 1)>>


\* C15: S34_ASSEMBLE, in every program: whenever it stands at the receive
\* from X every full line has been sent (the elements received are 125 for
\* each line sent plus the i elements of the partial line, i at most 124);
\* while a full line waits to be sent it neither receives an element nor
\* sees X closed, its next step is the send of that line; when it sees X
\* closed with i = 0, that is after a multiple of 125 elements, zero
\* included, it goes straight to close(lineprinter) and sends nothing, so
\* that it ends with as many lines sent as full lines received.
C15_LineAtOnce ==
    /\ [](apc = "range" =>
            /\ ai <= LastIndex
            /\ delivered["east"] = LineWidth * delivered["lineprinter"] + ai)
    /\ [](apc = "send_line" =>
            delivered["east"] = LineWidth * (delivered["lineprinter"] + 1))
    /\ [][apc = "send_line" =>
            /\ delivered'["east"] = delivered["east"]
            /\ \/ apc' = "send_line"
               \/ /\ apc' = "range"
                  /\ delivered'["lineprinter"] = delivered["lineprinter"] + 1]_vars
    /\ [][(apc = "range" /\ ai = 0 /\ apc' # "range") =>
            (apc' = "close" /\ delivered' = delivered)]_vars
    /\ [][apc = "close" =>
            (apc' \in {"close", "done"} /\ delivered' = delivered)]_vars
    /\ []((apc \in {"close", "done"} /\ delivered["east"] % LineWidth = 0) =>
            LineWidth * delivered["lineprinter"] = delivered["east"])
    /\ []((apc = "done" /\ delivered["east"] % LineWidth = 0) =>
            IsClosed("lineprinter"))

\* S34_ASSEMBLE run alone was sent exactly 125 elements: one line, the 125
\* elements, and lineprinter closed
C15_Witness ==
    /\ prog = "S34_ASSEMBLE"
    /\ Len(chars) = LineWidth
    /\ apc = "done"
    /\ IsClosed("lineprinter")
    /\ lines = <<chars>>


\* the elements S34_ASSEMBLE has received since the last line it sent
SinceLastLine == delivered["east"] - LineWidth * delivered["lineprinter"]

\* the value the middle goroutine sends next
MidOut ==
    IF xpc \in {"send_star", "send_dangling"} THEN Star
    ELSE IF xpc = "send_arrow" THEN Arrow ELSE c

\* the value S34_ASSEMBLE receives in the step under consideration
Received == IF prog = "S34_ASSEMBLE" THEN chars'[Len(chars')] ELSE MidOut

C17_CloseOrder ==
    /\ prog \in Pipelines =>
        /\ IsClosed("west") =>
             /\ IsClosed("cardfile")
             /\ dpc = "done"
             /\ delivered["west"] = CardStreamLen(cards)
        /\ IsClosed("east") =>
             /\ IsClosed("west")
             /\ xpc = "done"
             /\ LET stream == PipelineStream
                IN  /\ delivered["east"] = Len(stream)
                    /\ IsClosed("lineprinter") =>
                         /\ apc = "done"
                         /\ delivered["lineprinter"] = LinesFor(Len(stream))
                         /\ Concat(lines) = PadToLines(stream)
        /\ IsClosed("lineprinter") => IsClosed("east")
        /\ dpc \in {"close", "done"} => IsClosed("cardfile")
        /\ xpc \in {"close", "done"} => IsClosed("west")
        /\ apc \in {"send_last", "close", "done"} => IsClosed("east")
    /\ (prog = "S32_SQUASH_EX" /\ IsClosed("east")) =>
        /\ IsClosed("west")
        /\ outchars = PairsToArrows(chars)

\* S36_ConwayProblem has closed all four channels after two cards and two
\* lines, the second one padded
C17_Witness ==
    /\ prog = "S36_ConwayProblem"
    /\ IsClosed("cardfile")
    /\ IsClosed("lineprinter")
    /\ Len(cards) = 2
    /\ Len(lines) = 2
    /\ Len(PipelineStream) % LineWidth # 0


\* no two asterisks of s are next to each other
NoAdjacentMarkers(s) ==
    \A k \in 1..(Len(s) - 1) : s[k] = Star => s[k + 1] # Star

\* C18: S32_SQUASH and S32_SQUASH_EX run alone: what the consumer has
\* received never holds two asterisks next to each other; once it has seen
\* east closed, every asterisk received is followed by an element that is
\* not an asterisk or, for S32_SQUASH_EX only, is the last element; and
\* squashing the output again, by the same policy, gives the output.
C18_NoAdjacentMarkers ==
    /\ prog \in {"S32_SQUASH", "S32_SQUASH_EX"} => NoAdjacentMarkers(outchars)
    /\ (prog = "S32_SQUASH" /\ sinkpc = "done") =>
           /\ outchars # <<>> => outchars[Len(outchars)] # Star
           /\ PairsToArrowsStrict(outchars) = outchars
    /\ (prog = "S32_SQUASH_EX" /\ sinkpc = "done") =>
           PairsToArrows(outchars) = outchars

\* S32_SQUASH_EX has output an asterisk before a letter and an asterisk
\* at the end
C18_Witness ==
    /\ prog = "S32_SQUASH_EX"
    /\ sinkpc = "done"
    /\ chars = <<Star, Star, Star, 97, Star>>
    /\ outchars = <<Arrow, Star, 97, Star>>


\* card by card: the squash of the first min(len, 80) elements of a card,
\* an asterisk left over at its end kept, then one space
RECURSIVE SquashedCards(_)
SquashedCards(cs) ==
    IF cs = <<>> THEN <<>>
    ELSE PairsToArrows(SubSeq(Head(cs), 1, Min(Len(Head(cs)), CardWidth)))
           \o <<Space>> \o SquashedCards(Tail(cs))

\* the step the middle goroutine takes is a step of S32_SQUASH too, the
\* value sent to S34_ASSEMBLE included
StepOfStrictSquash ==
    \/ \E v \in Runes : S32_SQUASH_recv(v) \/ S32_SQUASH_recv2(v)
    \/ S32_SQUASH_closed
    \/ S32_SQUASH_closed2
    \/ \E v \in Runes : S32_SQUASH_send(v) /\ lineimage'[ai + 1] = v
    \/ xpc = "close" /\ xpc' = "done" /\ c' = c

\* C19: in S36_ConwayProblem the middle goroutine never stands at its
\* second receive with west closed and never sends the dangling asterisk;
\* every step it takes is the step S32_SQUASH would take in its place, so
\* the output would be the same with S32_SQUASH; and the lines the consumer
\* ends with are the cards squashed one by one, each followed by its
\* space: an asterisk at the end of a card is followed by the space, and
\* is never paired with an asterisk at the head of the next card.
C19_NoDanglingInPipeline ==
    /\ [](prog = "S36_ConwayProblem" =>
            /\ xpc # "send_dangling"
            /\ ~(xpc = "recv2" /\ IsClosed("west")))
    /\ []((prog = "S36_ConwayProblem" /\ sinkpc = "done") =>
            Concat(lines) = PadToLines(SquashedCards(cards)))
    /\ [][(prog = "S36_ConwayProblem" /\ xpc # "idle" /\ xvars' # xvars) =>
            StepOfStrictSquash]_vars

\* two cards of one asterisk each have given asterisk, space, asterisk,
\* space and no arrow
C19_Witness ==
    /\ prog = "S36_ConwayProblem"
    /\ sinkpc = "done"
    /\ cards = <<CardOf(1, Star), CardOf(1, Star)>>
    /\ lines = <<<<Star, Space, Star, Space>> \o CardOf(LineWidth - 4, Space)>>


\* C20: in S35_Reformat the elements handed over on west are the elements
\* S34_ASSEMBLE has received on east, or one more, and one more exactly
\* when S31_COPY holds an element it has still to send; S33_DISASSEMBLE
\* stands at the receive from cardfile only when every element and the
\* separator of every card sent were received by S31_COPY, and while it
\* sends a card what is not yet received is the rest of that card and its
\* separator; cardimage holds at most 80 elements and S34_ASSEMBLE holds
\* the elements received since the last line, at most one line of them.
C20_BackPressure ==
    prog = "S35_Reformat" =>
        /\ delivered["west"] - delivered["east"] \in {0, 1}
        /\ xpc = "send_c" <=> delivered["west"] = delivered["east"] + 1
        /\ dpc = "range" => delivered["west"] = CardStreamLen(cards)
        /\ dpc \in {"send", "space"} =>
             delivered["west"] + (Len(cardimage) - di) + 1
               = CardStreamLen(cards)
        /\ Len(cardimage) <= CardWidth
        /\ delivered["cardfile"] = Len(cards)
        /\ apc \in {"range", "send_line"} => SinceLastLine = ai
        /\ ai \in 0..LineWidth /\ Len(lineimage) = LineWidth

\* S31_COPY holds one element of the second card, S33_DISASSEMBLE is in the
\* middle of that card and S34_ASSEMBLE in the middle of a line
C20_Witness ==
    /\ prog = "S35_Reformat"
    /\ Len(cards) = 2
    /\ dpc = "send"
    /\ di \in 1..(Len(cardimage) - 1)
    /\ xpc = "send_c"
    /\ delivered["west"] = delivered["east"] + 1
    /\ ai \in 1..LastIndex


=============================================================================
